---- MODULE Spec2Model ----
(***************************************************************************)
(* Model of src/src/DesignSystemVisualizer.tsx: the DesignSystemVisualizer *)
(* component.  The state is the component's useState cells plus the        *)
(* position of the one-time fetchVariables effect and the dataset the      *)
(* server answers with.  Strings that the code inspects character by       *)
(* character (token names, the search term) are sequences of one-character *)
(* strings; null is the empty tuple and a present value x is <<x>>.        *)
(***************************************************************************)
EXTENDS Integers, Sequences, FiniteSets, TLC

VARIABLES
    data,                \* the dataset the fetch answers with (in flight until parsed)
    pc,                  \* position of fetchVariables: "fetch", "json", "done"
    variables,           \* useState([])      the registry of processed tokens
    searchTerm,          \* useState("")
    selectedCollection,  \* useState("all")
    selectedType,        \* useState("all")
    loading,             \* useState(true)
    activeTab,           \* useState("list")
    selectedToken,       \* useState(null)
    hoveredToken,        \* useState(null)
    consoleErrors        \* number of console.error calls made so far

vars == <<data, pc, variables, searchTerm, selectedCollection, selectedType,
          loading, activeTab, selectedToken, hoveredToken, consoleErrors>>

(***************************************************************************)
(* Bounds of the model.                                                    *)
(***************************************************************************)
MaxTokens == 3        \* variables of a dataset of the alias-graph family
MaxCollections == 2   \* collections of a dataset of the ingestion family
MaxVars == 2          \* variables per collection in the ingestion family
MaxQueryTokens == 2   \* variables of a dataset of the query family
MaxModes == 2         \* modes of a variable in the formatting family

\* The level below which renderDependencyNode renders a node's children.
MaxDepth == 4

(***************************************************************************)
(* JavaScript values.                                                      *)
(***************************************************************************)
Null == <<>>
Some(x) == <<x>>

\* A literal of a mode value: one record shape for every kind.  Colour
\* channels are held in thousandths (1000 is 1.0).
JsUndefined == [kind |-> "undefined", num |-> 0, str |-> "", bool |-> FALSE,
                color |-> [r |-> 0, g |-> 0, b |-> 0, a |-> 0]]
JsNumber(n) == [JsUndefined EXCEPT !.kind = "number", !.num = n]
JsString(s) == [JsUndefined EXCEPT !.kind = "string", !.str = s]
JsBoolean(b) == [JsUndefined EXCEPT !.kind = "boolean", !.bool = b]
JsColor(c) == [JsUndefined EXCEPT !.kind = "object", !.color = c]

\* JavaScript truthiness of a literal.
Truthy(v) ==
    CASE v.kind = "undefined" -> FALSE
      [] v.kind = "number" -> v.num # 0
      [] v.kind = "string" -> v.str # ""
      [] v.kind = "boolean" -> v.bool
      [] OTHER -> TRUE

\* String.prototype.toLowerCase on the model's alphabet.
LowerChar(c) ==
    CASE c = "A" -> "a"
      [] c = "B" -> "b"
      [] c = "C" -> "c"
      [] c = "D" -> "d"
      [] OTHER -> c

ToLowerCase(s) == IF s = <<>> THEN <<>> ELSE [i \in 1..Len(s) |-> LowerChar(s[i])]

\* String.prototype.includes.
Includes(s, sub) ==
    \E i \in 0..(Len(s) - Len(sub)) : SubSeq(s, i + 1, i + Len(sub)) = sub

(***************************************************************************)
(* Raw datasets.  A mode value is {value?, aliasOf?}; valuesByMode is the  *)
(* sequence of its entries in Object.keys order.  A field the JSON may     *)
(* lack carries a has-flag.                                                *)
(***************************************************************************)
ModeValue(value, aliasOf) == [value |-> value, aliasOf |-> aliasOf]
ModeEntry(mode, val) == [mode |-> mode, val |-> val]
RawVariable(name, type, modes) ==
    [name |-> name, resolvedType |-> type, hasValuesByMode |-> TRUE, valuesByMode |-> modes]
RawVariableNoModes(name, type) ==
    [name |-> name, resolvedType |-> type, hasValuesByMode |-> FALSE, valuesByMode |-> <<>>]
RawCollection(name, vs) == [name |-> name, hasVariables |-> TRUE, variables |-> vs]
RawCollectionNoVariables(name) == [name |-> name, hasVariables |-> FALSE, variables |-> <<>>]
RawData(cs) == [hasCollections |-> TRUE, collections |-> cs]
RawDataNoCollections == [hasCollections |-> FALSE, collections |-> <<>>]

SeqsUpTo(S, n) == UNION {[1..k -> S] : k \in 0..n}

Literal4 == <<ModeEntry("m1", ModeValue(JsNumber(4), Null))>>
AliasTo(name) == <<ModeEntry("m1", ModeValue(JsUndefined, Some(name)))>>

NameA == <<"A">>
NameB == <<"B">>
NameC == <<"C">>

\* Alias-graph family: one collection, every variable a FLOAT that is a
\* literal or an alias of one of three names (so names collide, aliases
\* dangle, and the alias relation has cycles and self-references).
GraphNames == {NameA, NameB, NameC}
GraphChoices == [name : GraphNames, alias : {Null} \cup {Some(t) : t \in GraphNames}]
GraphVariable(ch) ==
    RawVariable(ch.name, "FLOAT", IF ch.alias = Null THEN Literal4 ELSE AliasTo(ch.alias[1]))
GraphData(chs) ==
    RawData(<<RawCollection("Color", [i \in 1..Len(chs) |-> GraphVariable(chs[i])])>>)

\* Ingestion family: the collection at position c and the variable at
\* position v of it are named by their positions (the names of the
\* collections cover the three categories); a variable is well-formed or
\* lacks valuesByMode, a collection may lack variables and the dataset may
\* lack collections.
PositionCollections == <<"Color", "Components", "Spacing", "Typography">>
UpperLetters == <<"A", "B", "C", "D">>
LowerLetters == <<"a", "b", "c", "d">>
PositionName(c, v) == <<UpperLetters[c], LowerLetters[v]>>
IngestVariable(c, v, ok) ==
    IF ok THEN RawVariable(PositionName(c, v), IF v = 1 THEN "COLOR" ELSE "FLOAT", Literal4)
    ELSE RawVariableNoModes(PositionName(c, v), "FLOAT")
IngestChoices ==
    {ch \in [hasVariables : BOOLEAN, oks : SeqsUpTo(BOOLEAN, MaxVars)] :
        ch.hasVariables \/ ch.oks = <<>>}
IngestCollection(c, ch) ==
    IF ch.hasVariables
    THEN RawCollection(PositionCollections[c],
                       [v \in 1..Len(ch.oks) |-> IngestVariable(c, v, ch.oks[v])])
    ELSE RawCollectionNoVariables(PositionCollections[c])
IngestData(chs) == RawData([c \in 1..Len(chs) |-> IngestCollection(c, chs[c])])

\* Query family: every variable in a collection of its own, so that name,
\* category and resolved type vary independently of one another.
CollectionNames == {"Typography", "Color", "Components", "Spacing"}
QueryNames == {<<"A", "b">>, <<"a">>, <<"B">>}
QueryChoices == [collection : CollectionNames, name : QueryNames, type : {"COLOR", "FLOAT"}]
QueryData(chs) ==
    RawData([i \in 1..Len(chs) |->
                RawCollection(chs[i].collection,
                              <<RawVariable(chs[i].name, chs[i].type, Literal4)>>)])

\* Formatting family: one variable of every resolved type over every
\* sequence of mode values.
ResolvedTypes == {"COLOR", "FLOAT", "STRING", "BOOLEAN", "VARIABLE_ALIAS"}
Red == [r |-> 1000, g |-> 0, b |-> 0, a |-> 1000]
Literals ==
    {JsUndefined, JsNumber(4), JsNumber(0), JsString("Inter"), JsString(""),
     JsBoolean(TRUE), JsBoolean(FALSE), JsColor(Red)}
ModeValues == [value : Literals, aliasOf : {Null, Some(NameB)}]
ModeIds == <<"m1", "m2", "m3", "m4">>
FormatData(type, vs) ==
    RawData(<<RawCollection("Color",
                <<RawVariable(NameA, type, [i \in 1..Len(vs) |-> ModeEntry(ModeIds[i], vs[i])])>>)>>)

(***************************************************************************)
(* fetchVariables: the ingestion of the parsed dataset (lines 22-45).      *)
(* A TypeError thrown by the loop is the result threw = TRUE, with the     *)
(* local processedVariables as they were when it was thrown.               *)
(***************************************************************************)
\* CollectionType as it would be with "Typography" missing from the list.
CollectionTypeColorOnly(collectionName) ==
    IF collectionName \in {"Color"} THEN "foundation"
    ELSE IF collectionName = "Components" THEN "component"
    ELSE "raw"

\* let collectionType = "raw"; if (...) "foundation"; else if (...) "component"
CollectionType(collectionName) ==
    IF collectionName \in {"Typography", "Color"} THEN "foundation"
    ELSE IF collectionName = "Components" THEN "component"
    ELSE "raw"

\* FirstModeValue as it would be if the last key were taken in place of the
\* first.
FirstModeValueLast(valuesByMode) ==
    IF Len(valuesByMode) = 0 THEN Null ELSE Some(valuesByMode[Len(valuesByMode)].val)

\* Object.keys(variable.valuesByMode)[0] and variable.valuesByMode[firstMode]:
\* the first entry's value, or undefined (Null) when there is no mode.
FirstModeValue(valuesByMode) ==
    IF Len(valuesByMode) = 0 THEN Null ELSE Some(valuesByMode[1].val)

\* modeValue && modeValue.aliasOf ? modeValue.aliasOf : null
AliasOf(modeValue) ==
    IF modeValue # Null /\ modeValue[1].aliasOf # Null /\ modeValue[1].aliasOf[1] # <<>>
    THEN modeValue[1].aliasOf
    ELSE Null

\* The object pushed for one variable (lines 36-43).
ProcessVariable(variable, collection, collectionType) ==
    [name |-> variable.name,
     type |-> variable.resolvedType,
     collection |-> collection.name,
     collectionType |-> collectionType,
     valuesByMode |-> variable.valuesByMode,
     aliasOf |-> AliasOf(FirstModeValue(variable.valuesByMode))]

\* ForEachVariable as it would be with unshift in place of push.
RECURSIVE ForEachVariableUnshift(_, _, _, _)
ForEachVariableUnshift(collection, collectionType, k, processed) ==
    IF k > Len(collection.variables) THEN [threw |-> FALSE, processed |-> processed]
    ELSE IF ~collection.variables[k].hasValuesByMode
         THEN [threw |-> TRUE, processed |-> processed]
    ELSE ForEachVariableUnshift(collection, collectionType, k + 1,
            <<ProcessVariable(collection.variables[k], collection, collectionType)>>
                \o processed)

\* collection.variables.forEach from index k on.
RECURSIVE ForEachVariable(_, _, _, _)
ForEachVariable(collection, collectionType, k, processed) ==
    IF k > Len(collection.variables) THEN [threw |-> FALSE, processed |-> processed]
    ELSE IF ~collection.variables[k].hasValuesByMode
         THEN [threw |-> TRUE, processed |-> processed]   \* Object.keys(undefined)
    ELSE ForEachVariable(collection, collectionType, k + 1,
            Append(processed,
                   ProcessVariable(collection.variables[k], collection, collectionType)))

\* data.collections.forEach from index c on.
RECURSIVE ForEachCollection(_, _, _)
ForEachCollection(collections, c, processed) ==
    IF c > Len(collections) THEN [threw |-> FALSE, processed |-> processed]
    ELSE IF ~collections[c].hasVariables
         THEN [threw |-> TRUE, processed |-> processed]   \* undefined.forEach
    ELSE LET r == ForEachVariable(collections[c], CollectionType(collections[c].name),
                                  1, processed)
         IN IF r.threw THEN r ELSE ForEachCollection(collections, c + 1, r.processed)

ProcessData(d) ==
    IF ~d.hasCollections THEN [threw |-> TRUE, processed |-> <<>>]   \* undefined.forEach
    ELSE ForEachCollection(d.collections, 1, <<>>)

(***************************************************************************)
(* The derived values of a render (lines 59-146, 199-273).                 *)
(***************************************************************************)
\* FilterVariables as it would be without the toLowerCase() of the search
\* term.
FilterVariablesRawTerm(term, collection, type) ==
    LET matches(variable) ==
            LET matchesSearch == Includes(ToLowerCase(variable.name), term)
                matchesCollection == collection = "all" \/ variable.collectionType = collection
                matchesType == type = "all" \/ variable.type = type
            IN matchesSearch /\ matchesCollection /\ matchesType
    IN SelectSeq(variables, matches)

\* variables.filter(...) of the useMemo at lines 59-71, for given filters.
FilterVariables(term, collection, type) ==
    LET matches(variable) ==
            LET matchesSearch == Includes(ToLowerCase(variable.name), ToLowerCase(term))
                matchesCollection == collection = "all" \/ variable.collectionType = collection
                matchesType == type = "all" \/ variable.type = type
            IN matchesSearch /\ matchesCollection /\ matchesType
    IN SelectSeq(variables, matches)

filteredVariables == FilterVariables(searchTerm, selectedCollection, selectedType)

\* [...new Set(variables.map(v => v.type))]: the options of the type filter.
uniqueTypes == {variables[i].type : i \in 1..Len(variables)}

\* findTokenDependencies as it would be if a token were never counted among
\* its own dependents.
findTokenDependenciesOthersOnly(tokenName) ==
    LET aliases(v) == v.aliasOf # Null /\ v.aliasOf[1] = tokenName /\ v.name # tokenName
    IN SelectSeq(variables, aliases)

\* findTokenDependencies as it would be with find in place of filter.
findTokenDependenciesFirstOnly(tokenName) ==
    LET aliases(v) == v.aliasOf # Null /\ v.aliasOf[1] = tokenName
        all == SelectSeq(variables, aliases)
    IN IF all = <<>> THEN <<>> ELSE <<all[1]>>

\* findTokenDependencies as it would be if the filter kept every token that
\* has an alias target, whatever the target.
findTokenDependenciesAnyAlias(tokenName) ==
    LET aliases(v) == v.aliasOf # Null
    IN SelectSeq(variables, aliases)

findTokenDependencies(tokenName) ==
    LET aliases(v) == v.aliasOf # Null /\ v.aliasOf[1] = tokenName
    IN SelectSeq(variables, aliases)

isLeafNode(token) == Len(findTokenDependencies(token.name)) = 0

\* Math.round(channel * 255) for a channel held in thousandths.
RoundChannel(c) == (c * 255 + 500) \div 1000

\* The code points of the string literal that formatValue puts before an
\* alias target (line 81), as the source file holds it.
ReferencePrefix == <<8218, 220, 237, 32>>

Text(form, name, nums, str) == [form |-> form, name |-> name, nums |-> nums, str |-> str]
Returned(text) == [threw |-> FALSE, text |-> text]
Thrown == [threw |-> TRUE, text |-> Text("", <<>>, <<>>, "")]

\* "rgba(" + r + ", " + g + ", " + b + ", " + color.a + ")" for color = v:
\* the channels of a non-object are undefined and print as NaN.
Rgba(v) ==
    IF v.kind = "object"
    THEN Text("rgba", <<>>,
              <<RoundChannel(v.color.r), RoundChannel(v.color.g), RoundChannel(v.color.b),
                v.color.a>>, "")
    ELSE Text("rgba-NaN", <<>>, <<>>, "")

\* formatValue as it would be if it chose the form by the resolved type, and
\* serialized the literal of every other type.
formatValueByResolvedType(variable) ==
    LET value == FirstModeValue(variable.valuesByMode)
    IN IF variable.aliasOf # Null
       THEN Returned(Text("reference", variable.aliasOf[1], ReferencePrefix, ""))
       ELSE IF value = Null THEN Thrown
       ELSE LET v == value[1].value
            IN IF variable.type = "COLOR" THEN Returned(Rgba(v))
               ELSE IF variable.type = "FLOAT" THEN Returned(Text("number", <<>>, <<v.num>>, ""))
               ELSE IF variable.type = "STRING" THEN Returned(Text("string", <<>>, <<>>, v.str))
               ELSE IF variable.type = "BOOLEAN"
                    THEN Returned(Text("boolean", <<>>, <<>>, IF v.bool THEN "true" ELSE "false"))
               ELSE Returned(Text("json", <<>>,
                                  <<v.color.r, v.color.g, v.color.b, v.color.a>>, v.str))

formatValue(variable) ==
    LET value == FirstModeValue(variable.valuesByMode)
    IN IF variable.aliasOf # Null
       THEN Returned(Text("reference", variable.aliasOf[1], ReferencePrefix, ""))
       ELSE IF value = Null THEN Thrown            \* value.value of undefined
       ELSE LET v == value[1].value
            IN IF variable.type = "COLOR" /\ Truthy(v) THEN Returned(Rgba(v))
               ELSE IF v.kind = "number" THEN Returned(Text("number", <<>>, <<v.num>>, ""))
               ELSE IF v.kind = "string" THEN Returned(Text("string", <<>>, <<>>, v.str))
               ELSE IF v.kind = "boolean"
                    THEN Returned(Text("boolean", <<>>, <<>>, IF v.bool THEN "true" ELSE "false"))
               ELSE IF v.kind = "object"
                    THEN Returned(Text("json", <<>>,
                                       <<v.color.r, v.color.g, v.color.b, v.color.a>>, ""))
               ELSE Returned(Text("undefined", <<>>, <<>>, ""))   \* JSON.stringify(undefined)

getColorPreview(variable) ==
    LET value == FirstModeValue(variable.valuesByMode)
    IN IF variable.type # "COLOR" \/ variable.aliasOf # Null THEN Returned(Text("null", <<>>, <<>>, ""))
       ELSE IF value = Null \/ ~Truthy(value[1].value) \/ value[1].value.kind # "object"
            THEN Returned(Text("null", <<>>, <<>>, ""))
       ELSE Returned(Rgba(value[1].value))

\* renderDependencyNode as it would be if it followed the alias the other
\* way round: from a token to the tokens it references.
RECURSIVE renderDependencyNodeReferences(_, _)
renderDependencyNodeReferences(token, level) ==
    LET references(v) == token.aliasOf = Some(v.name)
        dependencies == SelectSeq(variables, references)
        hasChildren == Len(dependencies) > 0
    IN [token |-> token,
        level |-> level,
        isLeaf |-> isLeafNode(token),
        children |->
            IF hasChildren /\ level < MaxDepth
            THEN [i \in 1..Len(dependencies) |->
                    renderDependencyNodeReferences(dependencies[i], level + 1)]
            ELSE <<>>]

\* renderDependencyNode as it would be with the depth test off by one
\* (level <= 4).
RECURSIVE renderDependencyNodeOffByOne(_, _)
renderDependencyNodeOffByOne(token, level) ==
    LET dependencies == findTokenDependencies(token.name)
        hasChildren == Len(dependencies) > 0
    IN [token |-> token,
        level |-> level,
        isLeaf |-> isLeafNode(token),
        children |->
            IF hasChildren /\ level <= MaxDepth
            THEN [i \in 1..Len(dependencies) |->
                    renderDependencyNodeOffByOne(dependencies[i], level + 1)]
            ELSE <<>>]

\* The element renderDependencyNode(token, level, onTokenClick) returns: the
\* node's token and level and the elements of its dependencies, which are
\* rendered only when hasChildren && level < 4.
RECURSIVE renderDependencyNode(_, _)
renderDependencyNode(token, level) ==
    LET dependencies == findTokenDependencies(token.name)
        hasChildren == Len(dependencies) > 0
    IN [token |-> token,
        level |-> level,
        isLeaf |-> isLeafNode(token),
        children |->
            IF hasChildren /\ level < MaxDepth
            THEN [i \in 1..Len(dependencies) |->
                    renderDependencyNode(dependencies[i], level + 1)]
            ELSE <<>>]

\* The tokens at the nodes of a rendered tree.
RECURSIVE NodeTokens(_)
NodeTokens(node) ==
    {node.token} \cup UNION {NodeTokens(node.children[i]) : i \in DOMAIN node.children}

\* The tokens whose node the dependency panel shows (lines 704-708): the
\* tree is rendered only for a selected token that has dependencies.
TreeTokens ==
    IF selectedToken # Null /\ Len(findTokenDependencies(selectedToken[1].name)) > 0
    THEN NodeTokens(renderDependencyNode(selectedToken[1], 0))
    ELSE {}

ListTokens == {filteredVariables[i] : i \in 1..Len(filteredVariables)}

\* A render throws when it calls formatValue on a token for which it
\* throws: on every listed token (line 608), on the selected token (line
\* 661) and in the tooltip of a hovered tree node (lines 175, 265).
RenderThrows ==
    /\ ~loading
    /\ \/ \E t \in ListTokens : formatValue(t).threw
       \/ selectedToken # Null /\ formatValue(selectedToken[1]).threw
       \/ \E t \in TreeTokens : hoveredToken = Some(t.name) /\ formatValue(t).threw

\* The page is there to interact with: loaded, and the render went through.
Interactive == ~loading /\ ~RenderThrows

(***************************************************************************)
(* The datasets of the full component's specification: the chain A, B      *)
(* alias of A, C alias of B over three collections; a two-token alias      *)
(* cycle; a dataset that is malformed after a well-formed variable; one    *)
(* without collections; one with a variable whose valuesByMode is empty;   *)
(* and the empty one.                                                      *)
(***************************************************************************)
ChainData ==
    RawData(<<RawCollection("Color", <<RawVariable(NameA, "FLOAT", Literal4)>>),
              RawCollection("Components", <<RawVariable(NameB, "FLOAT", AliasTo(NameA))>>),
              RawCollection("Spacing", <<RawVariable(NameC, "COLOR", AliasTo(NameB))>>)>>)
CycleData ==
    RawData(<<RawCollection("Typography",
                <<RawVariable(<<"a", "B">>, "FLOAT", AliasTo(NameB)),
                  RawVariable(NameB, "STRING", AliasTo(<<"a", "B">>))>>)>>)
BrokenData ==
    RawData(<<RawCollection("Color",
                <<RawVariable(NameA, "FLOAT", Literal4), RawVariableNoModes(NameB, "FLOAT")>>)>>)
EmptyModesData ==
    RawData(<<RawCollection("Color",
                <<RawVariable(NameA, "FLOAT", Literal4), RawVariable(NameB, "FLOAT", <<>>)>>)>>)
Datasets ==
    {ChainData, CycleData, BrokenData, EmptyModesData, RawDataNoCollections, RawData(<<>>)}

\* The search terms typed into the search box.
SearchTerms == {<<>>, <<"a">>, <<"A", "b">>, <<"b", "a">>}

InitWith(dataset) ==
    /\ data = dataset
    /\ pc = "fetch"
    /\ variables = <<>>
    /\ searchTerm = <<>>
    /\ selectedCollection = "all"
    /\ selectedType = "all"
    /\ loading = TRUE
    /\ activeTab = "list"
    /\ selectedToken = Null
    /\ hoveredToken = Null
    /\ consoleErrors = 0

Init == \E dataset \in Datasets : InitWith(dataset)

InitEngine ==
    \/ \E chs \in SeqsUpTo(GraphChoices, MaxTokens) : InitWith(GraphData(chs))
    \/ InitWith(RawDataNoCollections)
    \/ \E chs \in SeqsUpTo(IngestChoices, MaxCollections) : InitWith(IngestData(chs))
    \/ \E chs \in SeqsUpTo(QueryChoices, MaxQueryTokens) : InitWith(QueryData(chs))
    \/ \E type \in ResolvedTypes, vs \in SeqsUpTo(ModeValues, MaxModes) :
            InitWith(FormatData(type, vs))

(***************************************************************************)
(* fetchVariables (lines 16-53).                                           *)
(***************************************************************************)
\* Catch as it would be if the catch block only logged the error.
CatchLogOnly ==
    /\ consoleErrors' = consoleErrors + 1
    /\ pc' = "done"
    /\ UNCHANGED <<data, variables, searchTerm, selectedCollection, selectedType,
                   loading, activeTab, selectedToken, hoveredToken>>

\* catch (error) { console.error(...); setLoading(false); }
Catch ==
    /\ consoleErrors' = consoleErrors + 1
    /\ loading' = FALSE
    /\ pc' = "done"
    /\ UNCHANGED <<data, variables, searchTerm, selectedCollection, selectedType,
                   activeTab, selectedToken, hoveredToken>>

\* await fetch(...) rejects.
FetchRejects == pc = "fetch" /\ Catch

\* await fetch(...) resolves with a response.
FetchResolves ==
    /\ pc = "fetch"
    /\ pc' = "json"
    /\ UNCHANGED <<data, variables, searchTerm, selectedCollection, selectedType, loading,
                   activeTab, selectedToken, hoveredToken, consoleErrors>>

\* await response.json() rejects: the body is no JSON.
JsonRejects == pc = "json" /\ Catch

\* ProcessResponse as it would be if processedVariables were the state
\* itself, so that what was pushed before a throw stays.
ProcessResponseInPlace ==
    /\ pc = "json"
    /\ LET r == ProcessData(data)
       IN /\ variables' = r.processed
          /\ loading' = FALSE
          /\ pc' = "done"
          /\ consoleErrors' = IF r.threw THEN consoleErrors + 1 ELSE consoleErrors
          /\ UNCHANGED <<data, searchTerm, selectedCollection, selectedType,
                         activeTab, selectedToken, hoveredToken>>

\* await response.json() resolves with the dataset: lines 22-48, or the
\* catch block when the loop throws.
ProcessResponse ==
    /\ pc = "json"
    /\ LET r == ProcessData(data)
       IN IF r.threw THEN Catch
          ELSE /\ variables' = r.processed
               /\ loading' = FALSE
               /\ pc' = "done"
               /\ UNCHANGED <<data, searchTerm, selectedCollection, selectedType,
                              activeTab, selectedToken, hoveredToken, consoleErrors>>

(***************************************************************************)
(* The event handlers of the rendered page.                                *)
(***************************************************************************)
\* SetSearchTerm as it would be if the handler narrowed the registry itself
\* to the matching tokens.
SetSearchTermNarrowing(term) ==
    /\ Interactive
    /\ searchTerm' = term
    /\ variables' = FilterVariables(term, "all", "all")
    /\ UNCHANGED <<data, pc, selectedCollection, selectedType, loading,
                   activeTab, selectedToken, hoveredToken, consoleErrors>>

\* onChange of the search box (line 474).
SetSearchTerm(term) ==
    /\ Interactive
    /\ searchTerm' = term
    /\ UNCHANGED <<data, pc, variables, selectedCollection, selectedType, loading,
                   activeTab, selectedToken, hoveredToken, consoleErrors>>

\* onChange of the collection filter (line 489).
SetSelectedCollection(collection) ==
    /\ Interactive
    /\ selectedCollection' = collection
    /\ UNCHANGED <<data, pc, variables, searchTerm, selectedType, loading,
                   activeTab, selectedToken, hoveredToken, consoleErrors>>

\* SetSelectedType as it would be if a change of the type filter dropped
\* the selection.
SetSelectedTypeClearing(type) ==
    /\ Interactive
    /\ selectedType' = type
    /\ selectedToken' = Null
    /\ UNCHANGED <<data, pc, variables, searchTerm, selectedCollection, loading,
                   activeTab, hoveredToken, consoleErrors>>

\* onChange of the type filter (line 507).
SetSelectedType(type) ==
    /\ Interactive
    /\ selectedType' = type
    /\ UNCHANGED <<data, pc, variables, searchTerm, selectedCollection, loading,
                   activeTab, selectedToken, hoveredToken, consoleErrors>>

\* onClick of a list entry.
handleTokenClick(token) ==
    /\ Interactive
    /\ selectedToken' = Some(token)
    /\ activeTab' = "map"
    /\ UNCHANGED <<data, pc, variables, searchTerm, selectedCollection, selectedType,
                   loading, hoveredToken, consoleErrors>>

\* onClick of a node of the dependency tree (lines 705-708).
DependencyNodeClick(token) ==
    /\ Interactive
    /\ selectedToken' = Some(token)
    /\ UNCHANGED <<data, pc, variables, searchTerm, selectedCollection, selectedType,
                   loading, activeTab, hoveredToken, consoleErrors>>

\* onMouseEnter of a list entry or of a tree node.
MouseEnter(token) ==
    /\ Interactive
    /\ hoveredToken' = Some(token.name)
    /\ UNCHANGED <<data, pc, variables, searchTerm, selectedCollection, selectedType,
                   loading, activeTab, selectedToken, consoleErrors>>

\* onMouseLeave of a list entry or of a tree node.
MouseLeave ==
    /\ Interactive
    /\ hoveredToken' = Null
    /\ UNCHANGED <<data, pc, variables, searchTerm, selectedCollection, selectedType,
                   loading, activeTab, selectedToken, consoleErrors>>

\* handleTabChange (lines 154-156); activeTab is read by no render.
handleTabChange(tab) ==
    /\ Interactive
    /\ activeTab' = tab
    /\ UNCHANGED <<data, pc, variables, searchTerm, selectedCollection, selectedType,
                   loading, selectedToken, hoveredToken, consoleErrors>>

Load == FetchRejects \/ FetchResolves \/ JsonRejects \/ ProcessResponse

ListClick == \E token \in ListTokens : handleTokenClick(token)

TreeClick == \E token \in TreeTokens : DependencyNodeClick(token)

Next ==
    \/ Load
    \/ \E term \in SearchTerms : SetSearchTerm(term)
    \/ \E collection \in {"all", "raw", "foundation", "component"} :
            SetSelectedCollection(collection)
    \/ \E type \in {"all"} \cup uniqueTypes : SetSelectedType(type)
    \/ ListClick
    \/ TreeClick
    \/ \E token \in ListTokens \cup TreeTokens : MouseEnter(token)
    \/ MouseLeave
    \/ \E tab \in {"list", "map"} : handleTabChange(tab)

Spec == Init /\ [][Next]_vars

\* The page when every promise of fetchVariables settles: each await of
\* lines 18-21 resolves or rejects, and the code after it runs.
SpecFair == Spec /\ WF_vars(Load)

\* The engine over every dataset of the four families: the load, whose
\* result every later render computes its derived values from.
NextEngine == Load

SpecEngine == InitEngine /\ [][NextEngine]_vars

(***************************************************************************)
(* Properties.                                                             *)
(***************************************************************************)
RegistryIndices == 1..Len(variables)

\* buildTree(root, 4) is renderDependencyNode started at level 0.
buildTree(root) == renderDependencyNode(root, 0)

Max(S) == CHOOSE x \in S : \A y \in S : y <= x

\* The number of edges of the longest path from a node down to a node
\* without children.
RECURSIVE Height(_)
Height(node) ==
    IF DOMAIN node.children = {} THEN 0
    ELSE 1 + Max({Height(node.children[i]) : i \in DOMAIN node.children})

RECURSIVE NodeCount(_)
NodeCount(node) ==
    IF DOMAIN node.children = {} THEN 1
    ELSE LET RECURSIVE Sum(_)
             Sum(k) == IF k = 0 THEN 0 ELSE NodeCount(node.children[k]) + Sum(k - 1)
         IN 1 + Sum(Len(node.children))

SelfAliased(token) == token.aliasOf = Some(token.name)

\* C1: the tree built from any token of any registry, cyclic and
\* self-referential alias relations included, has no path from its root
\* longer than 4 edges (and its construction ends: the tree is a value).
C1_TreeDepthBound ==
    \A i \in RegistryIndices : Height(buildTree(variables[i])) <= 4

\* A loaded registry with a self-aliased token, whose tree is cut at the cap.
C1_Witness ==
    /\ pc = "done"
    /\ \E i \in RegistryIndices :
            SelfAliased(variables[i]) /\ Height(buildTree(variables[i])) = 4

\* C2: a token is a leaf exactly when no token of the registry, itself
\* included, has it as alias target.
C2_LeafInvariant ==
    \A i \in RegistryIndices :
        isLeafNode(variables[i])
            <=> ~\E j \in RegistryIndices : variables[j].aliasOf = Some(variables[i].name)

\* A loaded registry where a token aliased by none but itself is no leaf,
\* beside a token that is a leaf.
C2_Witness ==
    /\ pc = "done"
    /\ \E i, k \in RegistryIndices :
        /\ SelfAliased(variables[i])
        /\ \A j \in RegistryIndices :
                variables[j].aliasOf = Some(variables[i].name) => variables[j] = variables[i]
        /\ ~isLeafNode(variables[i])
        /\ isLeafNode(variables[k])

\* The dataset lacks collections, or a collection lacks variables, or a
\* variable lacks valuesByMode.
Malformed(d) ==
    \/ ~d.hasCollections
    \/ \E c \in 1..Len(d.collections) :
        \/ ~d.collections[c].hasVariables
        \/ \E v \in 1..Len(d.collections[c].variables) :
                ~d.collections[c].variables[v].hasValuesByMode

\* C3: whatever was processed before ingestion failed, a malformed
\* dataset leaves the registry empty, and once the load is over the
\* failure has been reported and loading is off.
C3_NoPartialRegistry ==
    Malformed(data) =>
        /\ variables = <<>>
        /\ pc = "done" => consoleErrors = 1 /\ ~loading

\* The load of a dataset that fails after tokens had been processed.
C3_Witness ==
    /\ pc = "done"
    /\ Malformed(data)
    /\ ProcessData(data).threw
    /\ Len(ProcessData(data).processed) >= 2
    /\ variables = <<>>
    /\ consoleErrors = 1

\* C4: once the load is over no step changes the registry.
C4_RegistryImmutable == [][pc = "done" => variables' = variables]_vars

\* A loaded registry after a search, both filters, a click, a hover and a
\* switch back to the list tab.
C4_Witness ==
    /\ pc = "done"
    /\ Len(variables) = 3
    /\ searchTerm # <<>>
    /\ selectedCollection # "all"
    /\ selectedType # "all"
    /\ selectedToken # Null
    /\ hoveredToken # Null
    /\ activeTab = "list"

\* The k-th smallest element of a set of indices.
Kth(S, k) == CHOOSE i \in S : Cardinality({j \in S : j < i}) = k - 1

\* result is the registry's tokens at the indices S, in registry order.
SelectsInOrder(result, S) ==
    /\ Len(result) = Cardinality(S)
    /\ \A k \in 1..Len(result) : result[k] = variables[Kth(S, k)]

\* name contains term, letter case aside.
ContainsIgnoringCase(name, term) ==
    \E offset \in 0..(Len(name) - Len(term)) :
        \A k \in 1..Len(term) : LowerChar(name[offset + k]) = LowerChar(term[k])

CollectionFilters == {"all", "raw", "foundation", "component"}
\* The options of the type filter (lines 508-512).
TypeFilters == {"all"} \cup uniqueTypes

InResult(token, result) == \E k \in 1..Len(result) : result[k] = token

\* C5: for every search term, category filter and type filter the query
\* returns, in registry order, exactly the tokens that satisfy the three
\* predicates together; the empty term with both wildcards returns the
\* registry, and no returned token is excluded by one filter taken alone.
C5_FilterConjunction ==
    /\ FilterVariables(<<>>, "all", "all") = variables
    /\ \A term \in SearchTerms, collection \in CollectionFilters, type \in TypeFilters :
        LET result == FilterVariables(term, collection, type)
            S == {i \in RegistryIndices :
                    /\ ContainsIgnoringCase(variables[i].name, term)
                    /\ collection = "all" \/ variables[i].collectionType = collection
                    /\ type = "all" \/ variables[i].type = type}
        IN /\ SelectsInOrder(result, S)
           /\ \A k \in 1..Len(result) :
                /\ InResult(result[k], FilterVariables(term, "all", "all"))
                /\ InResult(result[k], FilterVariables(<<>>, collection, "all"))
                /\ InResult(result[k], FilterVariables(<<>>, "all", type))

\* A loaded registry of which a query with three proper filters returns a
\* part, matching a name that holds the term in another letter case.
C5_Witness ==
    /\ pc = "done"
    /\ \E term \in SearchTerms \ {<<>>}, collection \in CollectionFilters \ {"all"},
          type \in TypeFilters \ {"all"} :
        LET result == FilterVariables(term, collection, type)
        IN /\ 0 < Len(result)
           /\ Len(result) < Len(variables)
           /\ ~Includes(result[1].name, term)

\* The indices of the tokens whose alias target is name.
AliasersOf(name) == {j \in RegistryIndices : variables[j].aliasOf = Some(name)}

\* Below depth 4 a node's children are the tokens aliasing the node's
\* token, in registry order, each expanded by the same rule; at depth 4 a
\* node has no children.
RECURSIVE ExpandedByRule(_, _)
ExpandedByRule(node, depth) ==
    IF depth < 4
    THEN LET S == AliasersOf(node.token.name)
         IN /\ Len(node.children) = Cardinality(S)
            /\ \A k \in 1..Len(node.children) :
                /\ node.children[k].token = variables[Kth(S, k)]
                /\ ExpandedByRule(node.children[k], depth + 1)
    ELSE DOMAIN node.children = {}

\* The names n for which some token named n is, through one or more alias
\* steps, among its own dependents.
RECURSIVE DependentNames(_, _)
DependentNames(names, steps) ==
    IF steps = 0 THEN names
    ELSE DependentNames(
            names \cup {variables[j].name : j \in UNION {AliasersOf(n) : n \in names}},
            steps - 1)
OnAliasCycle(token) ==
    token.name \in DependentNames({variables[j].name : j \in AliasersOf(token.name)},
                                  Len(variables))

\* The registry of the chain A (literal FLOAT 4), B alias of A, C alias of B.
ChainRegistry ==
    ProcessData(GraphData(<<[name |-> NameA, alias |-> Null],
                            [name |-> NameB, alias |-> Some(NameA)],
                            [name |-> NameC, alias |-> Some(NameB)]>>)).processed

Leaf(token) == [token |-> token, children |-> <<>>]

\* A rendered tree without the fields that only describe a node's looks.
RECURSIVE Shape(_)
Shape(node) ==
    [token |-> node.token,
     children |-> IF DOMAIN node.children = {} THEN <<>>
                  ELSE [i \in 1..Len(node.children) |-> Shape(node.children[i])]]

\* C6: every node of a tree is expanded by the rule above; a token on an
\* alias cycle is expanded again and again down to depth 4; and the chain
\* A, B, C gives the tree A -> B -> C of 3 nodes and depth 2, with B the
\* only dependent of A and C the only leaf.
C6_TreeShape ==
    /\ \A i \in RegistryIndices :
        /\ ExpandedByRule(buildTree(variables[i]), 0)
        /\ OnAliasCycle(variables[i]) => Height(buildTree(variables[i])) = 4
    /\ variables = ChainRegistry =>
        /\ Shape(buildTree(variables[1])) =
                [token |-> variables[1],
                 children |-> <<[token |-> variables[2],
                                 children |-> <<Leaf(variables[3])>>]>>]
        /\ NodeCount(buildTree(variables[1])) = 3
        /\ Height(buildTree(variables[1])) = 2
        /\ findTokenDependencies(NameA) = <<variables[2]>>
        /\ ~isLeafNode(variables[1]) /\ ~isLeafNode(variables[2]) /\ isLeafNode(variables[3])

\* The chain's registry, loaded.
C6_Witness ==
    /\ pc = "done"
    /\ variables = ChainRegistry
    /\ Len(variables) = 3
    /\ NodeCount(buildTree(variables[1])) = 3

\* C7 (as claimed): no operation throws for any token of a registry that
\* ingestion produced.
C7_OperationsTotal ==
    \A i \in RegistryIndices :
        /\ ~formatValue(variables[i]).threw
        /\ ~getColorPreview(variables[i]).threw

\* C8: every token's category is one of the three and is fixed by the
\* name of its collection: foundation for "Typography" and "Color",
\* component for "Components", raw for every other name.
C8_CategoryRule ==
    \A i \in RegistryIndices :
        LET t == variables[i]
        IN /\ t.collectionType \in {"raw", "foundation", "component"}
           /\ t.collectionType = "foundation" <=> t.collection \in {"Typography", "Color"}
           /\ t.collectionType = "component" <=> t.collection = "Components"
           /\ t.collectionType = "raw"
                <=> t.collection \notin {"Typography", "Color", "Components"}
           /\ \A j \in RegistryIndices :
                variables[j].collection = t.collection
                    => variables[j].collectionType = t.collectionType

\* A loaded registry with a token of "Typography" and a raw token.
C8_Witness ==
    /\ pc = "done"
    /\ \E i, j \in RegistryIndices :
        /\ variables[i].collection = "Typography"
        /\ variables[i].collectionType = "foundation"
        /\ variables[j].collectionType = "raw"

\* The number of variables in the collections before collection c.
RECURSIVE Offset(_, _)
Offset(d, c) == IF c <= 1 THEN 0 ELSE Offset(d, c - 1) + Len(d.collections[c - 1].variables)

\* C9: a successful load of a well-formed dataset gives one token per raw
\* variable, collection after collection and variable after variable,
\* each with the name, the resolved type and the collection name of its
\* variable.
C9_FlatOrder ==
    (pc = "done" /\ consoleErrors = 0 /\ ~Malformed(data)) =>
        /\ Len(variables) = Offset(data, Len(data.collections) + 1)
        /\ \A c \in 1..Len(data.collections) :
            \A v \in 1..Len(data.collections[c].variables) :
                LET t == variables[Offset(data, c) + v]
                    raw == data.collections[c].variables[v]
                IN /\ t.name = raw.name
                   /\ t.type = raw.resolvedType
                   /\ t.collection = data.collections[c].name

\* A successful load of two collections of two variables each.
C9_Witness ==
    /\ pc = "done"
    /\ consoleErrors = 0
    /\ Len(data.collections) = 2
    /\ Len(data.collections[1].variables) = 2
    /\ Len(data.collections[2].variables) = 2
    /\ Len(variables) = 4

\* The names the registry mentions, and one it does not.
MentionedNames ==
    {variables[i].name : i \in RegistryIndices}
    \cup {variables[i].aliasOf[1] : i \in {j \in RegistryIndices : variables[j].aliasOf # Null}}
    \cup {<<"D">>}

\* C10: for every name, findTokenDependencies returns the tokens whose
\* alias target is that name, each once and in registry order, and the
\* empty sequence when there is none.
C10_DependentsScan ==
    \A name \in MentionedNames :
        /\ SelectsInOrder(findTokenDependencies(name), AliasersOf(name))
        /\ AliasersOf(name) = {} => findTokenDependencies(name) = <<>>

\* A loaded registry with two tokens aliasing a name that no token has.
C10_Witness ==
    /\ pc = "done"
    /\ \E name \in MentionedNames :
        /\ Len(findTokenDependencies(name)) >= 2
        /\ \A i \in RegistryIndices : variables[i].name # name
    /\ findTokenDependencies(<<"D">>) = <<>>

\* The token that ingestion makes of a token's variable when its
\* valuesByMode is modes.
WithModes(token, modes) ==
    ProcessVariable(RawVariable(token.name, token.type, modes),
                    [name |-> token.collection], token.collectionType)

\* C11: a token's alias target is the aliasOf of the first mode's value,
\* and absent when the first mode has none or there is no mode; whatever
\* value a second mode holds, the alias target, the formatted value and the
\* colour preview are those of the first mode alone.
C11_FirstModeOnly ==
    \A i \in RegistryIndices :
        LET t == variables[i]
            m == t.valuesByMode
        IN /\ t.aliasOf = IF Len(m) > 0 /\ m[1].val.aliasOf # Null
                          THEN m[1].val.aliasOf ELSE Null
           /\ Len(m) > 0 =>
                /\ WithModes(t, <<m[1]>>).aliasOf = t.aliasOf
                /\ formatValue(WithModes(t, <<m[1]>>)) = formatValue(t)
                /\ getColorPreview(WithModes(t, <<m[1]>>)) = getColorPreview(t)
                /\ \A later \in ModeValues :
                    LET u == WithModes(t, <<m[1], ModeEntry("m2", later)>>)
                    IN /\ u.aliasOf = t.aliasOf
                       /\ formatValue(u) = formatValue(t)
                       /\ getColorPreview(u) = getColorPreview(t)

\* A loaded COLOR token whose first mode is a colour literal and whose
\* second mode is an alias: it is no alias and shows the colour.
C11_Witness ==
    /\ pc = "done"
    /\ \E i \in RegistryIndices :
        LET t == variables[i]
        IN /\ Len(t.valuesByMode) = 2
           /\ t.valuesByMode[1].val = ModeValue(JsColor(Red), Null)
           /\ t.valuesByMode[2].val.aliasOf = Some(NameB)
           /\ t.type = "COLOR"
           /\ t.aliasOf = Null
           /\ formatValue(t).text.form = "rgba"
           /\ getColorPreview(t).text.form = "rgba"

\* The code points of "-> " written with the arrow U+2192 and a space.
RightArrowPrefix == <<8594, 32>>

\* C12 (as claimed): a token with an alias target formats to the arrow
\* U+2192, a space and the alias target's name, whatever its resolved type
\* and whatever literal its first mode holds.
C12_ReferenceFormat ==
    \A i \in RegistryIndices :
        variables[i].aliasOf # Null =>
            formatValue(variables[i]) =
                Returned(Text("reference", variables[i].aliasOf[1], RightArrowPrefix, ""))

\* Some token at another position of the registry has token i as its
\* alias target.
AliasedByAnother(i) ==
    \E j \in RegistryIndices \ {i} : variables[j].aliasOf = Some(variables[i].name)

\* C13 (as claimed): a token is a leaf exactly when no other token has it
\* as alias target, so that a token aliased by itself alone is a leaf.
C13_LeafIffNoOther ==
    \A i \in RegistryIndices : isLeafNode(variables[i]) <=> ~AliasedByAnother(i)

\* C13 (amended): a token is a leaf exactly when no other token has it as
\* alias target and it is not its own alias target; a token aliased by
\* itself alone is no leaf.
C13_LeafIffNoOtherNorItself ==
    \A i \in RegistryIndices :
        /\ isLeafNode(variables[i]) <=> ~AliasedByAnother(i) /\ ~SelfAliased(variables[i])
        /\ SelfAliased(variables[i]) => ~isLeafNode(variables[i])

\* The loaded registry of one token that is its own alias target.
C13_Witness ==
    /\ pc = "done"
    /\ Len(variables) = 1
    /\ SelfAliased(variables[1])
    /\ ~AliasedByAnother(1)
    /\ ~isLeafNode(variables[1])

\* The literal of a token's first mode, for a token that has a mode.
FirstLiteral(token) == token.valuesByMode[1].val.value

RgbaForms == {"rgba", "rgba-NaN"}

\* The generic structural serialization (JSON.stringify) of a literal: a
\* number, a boolean and an absent literal serialize to what String gives
\* for them, a string to itself between double quotes.
Serialized(v) ==
    IF v.kind = "number" THEN Text("number", <<>>, <<v.num>>, "")
    ELSE IF v.kind = "boolean"
         THEN Text("boolean", <<>>, <<>>, IF v.bool THEN "true" ELSE "false")
    ELSE IF v.kind = "string" THEN Text("quoted", <<>>, <<>>, v.str)
    ELSE IF v.kind = "object"
         THEN Text("json", <<>>, <<v.color.r, v.color.g, v.color.b, v.color.a>>, "")
    ELSE Text("undefined", <<>>, <<>>, "")

\* C14 (as claimed, for the tokens that have a first mode; the token
\* without one is the case of C7): the form of a non-alias token's
\* formatted value follows its resolved type: rgba for a COLOR token's
\* colour, the decimal string for a FLOAT token's number, the raw string for
\* a STRING token's string, true or false for a BOOLEAN token's boolean,
\* and for every other resolved type the structural serialization of the
\* literal whatever its kind, a string literal included; formatValue
\* throws for none of them.
C14_DispatchOnResolvedType ==
    \A i \in RegistryIndices :
        LET t == variables[i]
            r == formatValue(t)
        IN (t.aliasOf = Null /\ Len(t.valuesByMode) > 0) =>
            LET v == FirstLiteral(t)
            IN /\ ~r.threw
               /\ (t.type = "COLOR" /\ v.kind = "object") => r.text.form = "rgba"
               /\ (t.type = "FLOAT" /\ v.kind = "number") => r.text.form = "number"
               /\ (t.type = "STRING" /\ v.kind = "string") => r.text.form = "string"
               /\ (t.type = "BOOLEAN" /\ v.kind = "boolean") => r.text.form = "boolean"
               /\ t.type \notin {"COLOR", "FLOAT", "STRING", "BOOLEAN"} =>
                      r.text = Serialized(v)

\* C14 (amended): a COLOR token with a truthy literal formats to rgba (of
\* the rounded channels when the literal is a colour); every other
\* non-alias token formats by the kind of its literal, whatever its
\* resolved type: a number to its decimal string, a string to itself, a
\* boolean to true or false, an object to its serialization, and an absent
\* literal to undefined.  formatValue throws for the token without a mode
\* and for no other.
C14_DispatchOnLiteralKind ==
    \A i \in RegistryIndices :
        LET t == variables[i]
            r == formatValue(t)
        IN t.aliasOf = Null =>
            IF Len(t.valuesByMode) = 0 THEN r.threw
            ELSE LET v == FirstLiteral(t)
                 IN /\ ~r.threw
                    /\ IF t.type = "COLOR" /\ Truthy(v)
                       THEN /\ r.text.form \in RgbaForms
                            /\ r.text.form = "rgba" <=> v.kind = "object"
                            /\ v = JsColor(Red) => r.text.nums = <<255, 0, 0, 1000>>
                       ELSE /\ v.kind = "number" =>
                                r.text = Text("number", <<>>, <<v.num>>, "")
                            /\ v.kind = "string" =>
                                r.text = Text("string", <<>>, <<>>, v.str)
                            /\ v.kind = "boolean" =>
                                r.text.form = "boolean"
                                /\ (r.text.str = "true" <=> v.bool)
                                /\ (r.text.str = "false" <=> ~v.bool)
                            /\ v.kind = "object" => r.text.form = "json"
                            /\ v.kind = "undefined" => r.text.form = "undefined"

\* A loaded token of an unknown resolved type with a string literal, which
\* formats to the string itself.
C14_Witness ==
    /\ pc = "done"
    /\ \E i \in RegistryIndices :
        LET t == variables[i]
        IN /\ t.type = "VARIABLE_ALIAS"
           /\ t.aliasOf = Null
           /\ Len(t.valuesByMode) > 0
           /\ FirstLiteral(t) = JsString("Inter")
           /\ formatValue(t) = Returned(Text("string", <<>>, <<>>, "Inter"))

\* C15: the page starts loading with an empty registry; when the promises
\* of fetchVariables settle, loading becomes false, whether the load
\* succeeds, the fetch rejects, the body is no JSON or the processing
\* throws; once false it is never true again; and when it is false after a
\* failure the registry is empty.
C15_LoadingEnds ==
    /\ (loading = TRUE /\ variables = <<>>)
    /\ <>(~loading)
    /\ [](~loading => [](~loading))
    /\ []((~loading /\ consoleErrors > 0) => variables = <<>>)

\* The load of a well-formed dataset has failed before the processing (the
\* fetch or the parse rejected): loading is false and the registry empty.
C15_Witness ==
    /\ pc = "done"
    /\ ~ProcessData(data).threw
    /\ Len(ProcessData(data).processed) > 0
    /\ consoleErrors = 1
    /\ ~loading
    /\ variables = <<>>

\* A change of the search term or of one of the two filters.
QueryChanges ==
    \/ searchTerm' # searchTerm
    \/ selectedCollection' # selectedCollection
    \/ selectedType' # selectedType

\* C16: the selected token is none or a token of the registry, and none
\* while the page is loading; only a click on a list entry or on a tree
\* node changes it; a change of the search term or of a filter leaves it as
\* it is, also when it no longer passes the filters.
C16_SelectionStable ==
    /\ [](selectedToken = Null \/ \E i \in RegistryIndices : variables[i] = selectedToken[1])
    /\ [](loading => selectedToken = Null)
    /\ [][selectedToken' # selectedToken => (ListClick \/ TreeClick)]_vars
    /\ [][QueryChanges => selectedToken' = selectedToken]_vars

\* A token stays selected after the search and the filters have been
\* changed so that the list no longer shows it.
C16_Witness ==
    /\ selectedToken # Null
    /\ \E i \in RegistryIndices : variables[i] = selectedToken[1]
    /\ selectedToken[1] \notin ListTokens
    /\ (searchTerm # <<>> \/ selectedCollection # "all" \/ selectedType # "all")

DistinctNames ==
    \A i, j \in RegistryIndices : variables[i].name = variables[j].name => i = j

Acyclic == \A i \in RegistryIndices : ~OnAliasCycle(variables[i])

\* The tokens at the nodes below the root of a tree.
Descendants(node) ==
    UNION {NodeTokens(node.children[k]) : k \in DOMAIN node.children}

\* C17: when the names of the registry are distinct and no token is on an
\* alias cycle, the tree of every root has each token at one node at most,
\* does not have the root below itself, and has no more nodes than the
\* registry has tokens.
C17_TreeWithoutRepeats ==
    (DistinctNames /\ Acyclic) =>
        \A i \in RegistryIndices :
            LET tree == buildTree(variables[i])
            IN /\ NodeCount(tree) = Cardinality(NodeTokens(tree))
               /\ variables[i] \notin Descendants(tree)
               /\ NodeCount(tree) <= Len(variables)

\* A registry of three distinctly named tokens without a cycle, two of them
\* aliasing the first: the first token's tree has the three tokens, once
\* each, the root with two children.
C17_Witness ==
    /\ pc = "done"
    /\ Len(variables) = 3
    /\ DistinctNames
    /\ Acyclic
    /\ LET tree == buildTree(variables[1])
       IN /\ Len(tree.children) = 2
          /\ NodeCount(tree) = 3
          /\ Cardinality(NodeTokens(tree)) = 3

====
